---------------------------- MODULE Spec2Model ----------------------------
(***************************************************************************)
(* A model of heapix: the Fibonacci heap of src/src/fibonacci_heap.rs      *)
(* (FibHeap) with its (id, key) API, and the binary heap of                *)
(* src/src/minheap.rs (MinHeap) that it is compared with.                  *)
(*                                                                         *)
(* Conventions.  A Rust Vec is a function on 0..len-1 (<< >> when empty),  *)
(* so slot and id numbers are the source's.  Option<usize> is a number or  *)
(* NONE; Option<(usize, K)> is the pair or the empty tuple NoEntry.  An    *)
(* entry (id, key) is the pair <<id, key>>: entry[1] is Rust's entry.0 and *)
(* entry[2] is entry.1.  Every method of FibHeap is an operator from the   *)
(* heap record (the fields of the struct, plus `panicked`) to the heap     *)
(* record after the call; statements are applied in the source's order.    *)
(* A method holding a debug_assert! or a #[cfg(debug_assertions)] block    *)
(* takes the build as its last parameter: TRUE is a build with debug       *)
(* assertions (cargo test, cargo build), FALSE one without (--release).    *)
(***************************************************************************)
EXTENDS Integers, Sequences, FiniteSets, TLC

VARIABLES
    nodes,            \* FibHeap.nodes: Vec<Node<K>>
    positions,        \* FibHeap.positions: id -> node index | NOT_IN_HEAP
    min_root,         \* FibHeap.min_root: Option<usize>
    n,                \* FibHeap.n
    scratch_roots,    \* FibHeap.scratch_roots
    scratch_aux,      \* FibHeap.scratch_aux
    panicked,         \* a panic has unwound out of a call
    ret,              \* the last &mut self call: name, arguments, result
    live,             \* history: the items the calls so far leave in the heap
    hist,             \* history: how many inserts, extractions and clears
    input,            \* the items handed to build_heap (BuildSpec)
    output,           \* what the delete_min calls after build_heap returned
    fresh,            \* a FibHeap made by new() at the clear (ClearSpec)
    baseline          \* a MinHeap given the same calls (DiffSpec)

vars == <<nodes, positions, min_root, n, scratch_roots, scratch_aux,
          panicked, ret, live, hist, input, output, fresh, baseline>>

heap_vars == <<nodes, positions, min_root, n, scratch_roots, scratch_aux>>

-----------------------------------------------------------------------------
(* Bounds of the model *)

(* insert calls along one run *)
MaxInserts == 5

(* keys are 0..MaxKey *)
MaxKey == 1

(* clear calls along one run *)
MaxClears == 1

(* a new id is at most this far past the end of the position index *)
MaxIdGap == 0

(* build_heap is given at most this many items *)
MaxItems == 4

(* calls that break the contract of insert or decrease_key, along one run *)
MaxViolations == 1

(* insert calls along one run that has calls breaking the contract *)
MaxContractInserts == 3

(* insert calls along one run that has a decrease_key of an absent id *)
MaxAbsentInserts == 3

(* there, a new id is at most this far past the end of the position index *)
MaxAbsentGap == 1

(* insert calls before the clear, in a run that compares clear with new *)
MaxInsertsBeforeClear == 3

(* insert calls along one run that compares the FibHeap with a MinHeap *)
MaxDiffInserts == 5

(* insert calls along one run that builds trees for a cascading cut *)
MaxCascadeInserts == 9

(* delete_min calls that return an item, along such a run *)
MaxCascadeExtracts == 1

(* live items with a key below MaxKey, in such a run *)
MaxCascadeLow == 3

Ids == 0..(MaxInserts + MaxIdGap - 1)

Keys == 0..MaxKey

-----------------------------------------------------------------------------
(* Values *)

NOT_IN_HEAP == 2147483647

NONE == -1

NoEntry == << >>

Len0(v) == Cardinality(DOMAIN v)

Push(v, x) == [i \in 0..Len0(v) |-> IF i < Len0(v) THEN v[i] ELSE x]

Resize(v, new_len, fill) ==
    [i \in 0..(new_len - 1) |-> IF i < Len0(v) THEN v[i] ELSE fill]

Node(id, key, idx) ==
    [entry |-> <<id, key>>, degree |-> 0, mark |-> FALSE, parent |-> NONE,
     child |-> NONE, left |-> idx, right |-> idx]

new ==
    [nodes |-> << >>, positions |-> << >>, min_root |-> NONE, n |-> 0,
     scratch_roots |-> << >>, scratch_aux |-> << >>, panicked |-> FALSE]

(* MinHeap::new() of minheap.rs *)
mh_new == [heap |-> << >>, positions |-> << >>, panicked |-> FALSE]

Self ==
    [nodes |-> nodes, positions |-> positions, min_root |-> min_root, n |-> n,
     scratch_roots |-> scratch_roots, scratch_aux |-> scratch_aux,
     panicked |-> panicked]

-----------------------------------------------------------------------------
(* Helpers *)

(* mutant: the minimum pointer is set only when the heap was empty *)
update_min_only_when_empty(h, idx) ==
    IF h.min_root = NONE THEN [h EXCEPT !.min_root = idx] ELSE h

update_min(h, idx) ==
    IF h.min_root = NONE
    THEN [h EXCEPT !.min_root = idx]
    ELSE IF h.nodes[idx].entry[2] < h.nodes[h.min_root].entry[2]
         THEN [h EXCEPT !.min_root = idx]
         ELSE h

(* mutant: the splice without the update of the minimum pointer *)
add_to_root_keeps_min(h, idx) ==
    IF h.min_root # NONE
    THEN LET min_idx == h.min_root
             left == h.nodes[min_idx].left
             n1 == [h.nodes EXCEPT ![idx].left = left]
             n2 == [n1 EXCEPT ![idx].right = min_idx]
             n3 == [n2 EXCEPT ![left].right = idx]
             n4 == [n3 EXCEPT ![min_idx].left = idx]
         IN  [h EXCEPT !.nodes = n4]
    ELSE [h EXCEPT !.min_root = idx]

add_to_root(h, idx) ==
    IF h.min_root # NONE
    THEN LET min_idx == h.min_root
             left == h.nodes[min_idx].left
             n1 == [h.nodes EXCEPT ![idx].left = left]
             n2 == [n1 EXCEPT ![idx].right = min_idx]
             n3 == [n2 EXCEPT ![left].right = idx]
             n4 == [n3 EXCEPT ![min_idx].left = idx]
         IN  [h EXCEPT !.nodes = n4,
                       !.min_root = IF n4[idx].entry[2] < n4[min_idx].entry[2]
                                    THEN idx ELSE min_idx]
    ELSE [h EXCEPT !.min_root = idx]

(* mutant: the left link of the right neighbour is not re-pointed *)
detach_forgets_left(h, i) ==
    LET l == h.nodes[i].left
        r == h.nodes[i].right
        n1 == [h.nodes EXCEPT ![l].right = r]
        n3 == [n1 EXCEPT ![i].left = i]
        n4 == [n3 EXCEPT ![i].right = i]
    IN  [h EXCEPT !.nodes = n4]

detach(h, i) ==
    LET l == h.nodes[i].left
        r == h.nodes[i].right
        n1 == [h.nodes EXCEPT ![l].right = r]
        n2 == [n1 EXCEPT ![r].left = l]
        n3 == [n2 EXCEPT ![i].left = i]
        n4 == [n3 EXCEPT ![i].right = i]
    IN  [h EXCEPT !.nodes = n4]

link(h, y, x) ==
    LET h1 == detach(h, y)
        c == h1.nodes[x].child
        h2 == IF c # NONE
              THEN LET l == h1.nodes[c].left
                       n1 == [h1.nodes EXCEPT ![y].left = l]
                       n2 == [n1 EXCEPT ![y].right = c]
                       n3 == [n2 EXCEPT ![l].right = y]
                       n4 == [n3 EXCEPT ![c].left = y]
                   IN  [h1 EXCEPT !.nodes = n4]
              ELSE [h1 EXCEPT !.nodes[x].child = y]
    IN  [h2 EXCEPT !.nodes[y].parent = x,
                   !.nodes[y].mark = FALSE,
                   !.nodes[x].degree = @ + 1]

(* mutant: parent.child is not repaired when idx, the designated child, *)
(* has siblings                                                        *)
cut_keeps_child(h, idx, parent) ==
    LET h1 == IF h.nodes[parent].child = idx /\ h.nodes[idx].right = idx
              THEN [h EXCEPT !.nodes[parent].child = NONE]
              ELSE detach(h, idx)
        h2 == [h1 EXCEPT !.nodes[parent].degree = @ - 1]
        h3 == [h2 EXCEPT !.nodes[idx].parent = NONE, !.nodes[idx].mark = FALSE]
    IN  add_to_root(h3, idx)

(* mutant: the degree of the parent is not decremented *)
cut_keeps_degree(h, idx, parent) ==
    LET h1 == IF h.nodes[parent].child = idx
              THEN IF h.nodes[idx].right = idx
                   THEN [h EXCEPT !.nodes[parent].child = NONE]
                   ELSE LET next == h.nodes[idx].right
                        IN  [detach(h, idx) EXCEPT !.nodes[parent].child = next]
              ELSE detach(h, idx)
        h3 == [h1 EXCEPT !.nodes[idx].parent = NONE, !.nodes[idx].mark = FALSE]
    IN  add_to_root(h3, idx)

cut(h, idx, parent) ==
    LET h1 == IF h.nodes[parent].child = idx
              THEN IF h.nodes[idx].right = idx
                   THEN [h EXCEPT !.nodes[parent].child = NONE]
                   ELSE LET next == h.nodes[idx].right
                        IN  [detach(h, idx) EXCEPT !.nodes[parent].child = next]
              ELSE detach(h, idx)
        h2 == [h1 EXCEPT !.nodes[parent].degree = @ - 1]
        h3 == [h2 EXCEPT !.nodes[idx].parent = NONE, !.nodes[idx].mark = FALSE]
    IN  add_to_root(h3, idx)

(* mutant: the parent of a cut node is neither marked nor cut *)
cascading_cut_skipped(h, y) == h

(* mutant: a marked node is left where it is *)
cascading_cut_marks_only(h, y) ==
    IF h.nodes[y].parent # NONE /\ ~h.nodes[y].mark
    THEN [h EXCEPT !.nodes[y].mark = TRUE]
    ELSE h

RECURSIVE cascading_cut(_, _)
cascading_cut(h, y) ==
    LET p == h.nodes[y].parent
    IN  IF p = NONE
        THEN h
        ELSE IF ~h.nodes[y].mark
             THEN [h EXCEPT !.nodes[y].mark = TRUE]
             ELSE cascading_cut(cut(h, y, p), p)

-----------------------------------------------------------------------------
(* consolidate *)

(* ((n as f64).log2().ceil()) as usize, for n >= 1 *)
RECURSIVE CeilLog2From(_, _, _)
CeilLog2From(m, k, pow) ==
    IF pow >= m THEN k ELSE CeilLog2From(m, k + 1, 2 * pow)

CeilLog2(m) == CeilLog2From(m, 0, 1)

(* step 1: the root ring, from start, following right *)
RECURSIVE collect_roots(_, _, _, _)
collect_roots(h, start, w, roots) ==
    LET roots1 == Push(roots, w)
        w1 == h.nodes[w].right
    IN  IF w1 = start THEN roots1 ELSE collect_roots(h, start, w1, roots1)

RECURSIVE link_loop(_, _, _)

(* mutant: the tree found in scratch_aux[d] always becomes the child *)
link_loop_no_swap(h, x, d) ==
    LET h1 == IF d >= Len0(h.scratch_aux)
              THEN [h EXCEPT !.scratch_aux = Resize(@, d + 1, NONE)]
              ELSE h
    IN  IF h1.scratch_aux[d] = NONE
        THEN [h1 EXCEPT !.scratch_aux[d] = x]
        ELSE LET y0 == h1.scratch_aux[d]
                 h2 == [h1 EXCEPT !.scratch_aux[d] = NONE]
             IN  link_loop(link(h2, y0, x), x, d + 1)

(* step 3, the inner loop: x of degree d meets the tree in scratch_aux[d] *)
link_loop(h, x, d) ==
    LET h1 == IF d >= Len0(h.scratch_aux)
              THEN [h EXCEPT !.scratch_aux = Resize(@, d + 1, NONE)]
              ELSE h
    IN  IF h1.scratch_aux[d] = NONE
        THEN [h1 EXCEPT !.scratch_aux[d] = x]
        ELSE LET y0 == h1.scratch_aux[d]
                 h2 == [h1 EXCEPT !.scratch_aux[d] = NONE]
                 swap == h2.nodes[y0].entry[2] < h2.nodes[x].entry[2]
                 x1 == IF swap THEN y0 ELSE x
                 y1 == IF swap THEN x ELSE y0
             IN  link_loop(link(h2, y1, x1), x1, d + 1)

(* step 3, the outer loop over the collected roots, from roots[i] on *)
RECURSIVE link_roots(_, _, _)
link_roots(h, roots, i) ==
    IF i >= Len0(roots)
    THEN h
    ELSE LET root_idx == roots[i]
         IN  IF h.nodes[root_idx].parent # NONE
             THEN link_roots(h, roots, i + 1)
             ELSE link_roots(link_loop(h, root_idx, h.nodes[root_idx].degree),
                             roots, i + 1)

(* step 4: the root ring rebuilt from aux[i], aux[i+1], ... *)
RECURSIVE rebuild_ring(_, _, _)
rebuild_ring(h, aux, i) ==
    IF i >= Len0(aux)
    THEN h
    ELSE IF aux[i] # NONE
         THEN LET idx == aux[i]
                  h1 == [h EXCEPT !.nodes[idx].left = idx,
                                  !.nodes[idx].right = idx,
                                  !.nodes[idx].parent = NONE]
              IN  rebuild_ring(add_to_root(h1, idx), aux, i + 1)
         ELSE rebuild_ring(h, aux, i + 1)

(* the walk of assert_root_ring: FALSE when a root is seen twice *)
RECURSIVE ring_walk_ok(_, _, _, _)
ring_walk_ok(h, r, cur, seen) ==
    IF cur \in seen
    THEN FALSE
    ELSE LET nxt == h.nodes[cur].right
         IN  IF nxt = r THEN TRUE ELSE ring_walk_ok(h, r, nxt, seen \cup {cur})

assert_root_ring(h) ==
    IF h.min_root # NONE
    THEN ring_walk_ok(h, h.min_root, h.min_root, {})
    ELSE TRUE

(* mutant: the roots are left as they are *)
consolidate_without_linking(h, debug_assertions) == h

consolidate(h, debug_assertions) ==
    IF h.min_root = NONE
    THEN h
    ELSE LET start == h.min_root
             roots == collect_roots(h, start, start, << >>)
             max_deg == CeilLog2(h.n) + 2
             aux0 == IF Len0(h.scratch_aux) < max_deg
                     THEN Resize(h.scratch_aux, max_deg, NONE)
                     ELSE h.scratch_aux
             h1 == [h EXCEPT !.scratch_roots = << >>,
                             !.scratch_aux = [i \in DOMAIN aux0 |-> NONE]]
             h2 == link_roots(h1, roots, 0)
             aux == h2.scratch_aux
             h3 == rebuild_ring([h2 EXCEPT !.min_root = NONE,
                                           !.scratch_aux = << >>], aux, 0)
             h4 == [h3 EXCEPT !.scratch_aux = aux, !.scratch_roots = roots]
         IN  IF debug_assertions /\ ~assert_root_ring(h4)
             THEN [h4 EXCEPT !.panicked = TRUE]
             ELSE h4

-----------------------------------------------------------------------------
(* Public API *)

is_empty(h) == h.n = 0

len(h) == h.n

RECURSIVE clear_positions(_, _, _)
clear_positions(pos, nds, i) ==
    IF i >= Len0(nds)
    THEN pos
    ELSE clear_positions([pos EXCEPT ![nds[i].entry[1]] = NOT_IN_HEAP], nds, i + 1)

(* mutant: the count of items is left as it was *)
clear_keeps_n(h) ==
    [h EXCEPT !.positions = clear_positions(h.positions, h.nodes, 0),
              !.nodes = << >>,
              !.min_root = NONE]

(* mutant: the node store is emptied and the position index is left as is *)
clear_keeps_positions(h) ==
    [h EXCEPT !.nodes = << >>, !.min_root = NONE, !.n = 0]

clear(h) ==
    [h EXCEPT !.positions = clear_positions(h.positions, h.nodes, 0),
              !.nodes = << >>,
              !.min_root = NONE,
              !.n = 0]

(* mutant: the insert that does not count the item *)
insert_uncounted(h, id, key, debug_assertions) ==
    IF debug_assertions
       /\ ~(id >= Len0(h.positions) \/ h.positions[id] = NOT_IN_HEAP)
    THEN [h EXCEPT !.panicked = TRUE]
    ELSE LET idx == Len0(h.nodes)
             h1 == [h EXCEPT !.nodes = Push(@, Node(id, key, idx))]
             h2 == IF id >= Len0(h1.positions)
                   THEN [h1 EXCEPT !.positions = Resize(@, id + 1, NOT_IN_HEAP)]
                   ELSE h1
             h3 == [h2 EXCEPT !.positions[id] = idx]
             h4 == add_to_root(h3, idx)
         IN  update_min(h4, idx)

insert(h, id, key, debug_assertions) ==
    IF debug_assertions
       /\ ~(id >= Len0(h.positions) \/ h.positions[id] = NOT_IN_HEAP)
    THEN [h EXCEPT !.panicked = TRUE]
    ELSE LET idx == Len0(h.nodes)
             h1 == [h EXCEPT !.nodes = Push(@, Node(id, key, idx))]
             h2 == IF id >= Len0(h1.positions)
                   THEN [h1 EXCEPT !.positions = Resize(@, id + 1, NOT_IN_HEAP)]
                   ELSE h1
             h3 == [h2 EXCEPT !.positions[id] = idx]
             h4 == add_to_root(h3, idx)
             h5 == [h4 EXCEPT !.n = @ + 1]
         IN  update_min(h5, idx)

(* build_heap: the items of a Vec, a TLA+ sequence here, inserted in turn *)
RECURSIVE insert_all(_, _, _, _)
insert_all(h, items, i, debug_assertions) ==
    IF i > Len(items) \/ h.panicked
    THEN h
    ELSE insert_all(insert(h, items[i][1], items[i][2], debug_assertions),
                    items, i + 1, debug_assertions)

build_heap(items, debug_assertions) == insert_all(new, items, 1, debug_assertions)

get_min(h) ==
    IF h.min_root = NONE THEN NoEntry ELSE h.nodes[h.min_root].entry

RECURSIVE promote_children(_, _)

(* mutant: the promoted children keep their parent link *)
promote_children_keeps_parent(h, child) ==
    LET next == h.nodes[child].right
        h1 == detach(h, child)
        h2 == [h1 EXCEPT !.nodes[child].mark = FALSE]
        h3 == add_to_root(h2, child)
    IN  IF next = child THEN h3 ELSE promote_children(h3, next)

(* delete_min step 1: child and the rest of its ring become roots *)
promote_children(h, child) ==
    LET next == h.nodes[child].right
        h1 == detach(h, child)
        h2 == [h1 EXCEPT !.nodes[child].parent = NONE,
                         !.nodes[child].mark = FALSE]
        h3 == add_to_root(h2, child)
    IN  IF next = child THEN h3 ELSE promote_children(h3, next)

(* mutant: the right neighbour of the old minimum becomes the minimum and *)
(* the roots are not consolidated                                       *)
delete_min_without_consolidate(h, debug_assertions) ==
    IF h.min_root = NONE
    THEN [h |-> h, val |-> NoEntry]
    ELSE LET z == h.min_root
             h1 == IF h.nodes[z].child # NONE
                   THEN [promote_children(h, h.nodes[z].child)
                            EXCEPT !.nodes[z].child = NONE]
                   ELSE h
             successor == h1.nodes[z].right
             h2 == detach(h1, z)
             h3 == [h2 EXCEPT !.n = @ - 1]
             entry == h3.nodes[z].entry
             h4 == [h3 EXCEPT !.positions[entry[1]] = NOT_IN_HEAP]
             h5 == IF h4.n = 0
                   THEN [h4 EXCEPT !.min_root = NONE]
                   ELSE IF h4.min_root = z
                        THEN [h4 EXCEPT !.min_root = successor]
                        ELSE h4
         IN  [h |-> h5, val |-> entry]

(* mutant: the position-index entry of the returned id is left as it was *)
delete_min_keeps_position(h, debug_assertions) ==
    IF h.min_root = NONE
    THEN [h |-> h, val |-> NoEntry]
    ELSE LET z == h.min_root
             h1 == IF h.nodes[z].child # NONE
                   THEN [promote_children(h, h.nodes[z].child)
                            EXCEPT !.nodes[z].child = NONE]
                   ELSE h
             successor == h1.nodes[z].right
             h2 == detach(h1, z)
             h3 == [h2 EXCEPT !.n = @ - 1]
             entry == h3.nodes[z].entry
             h5 == IF h3.n = 0
                   THEN [h3 EXCEPT !.min_root = NONE]
                   ELSE consolidate(IF h3.min_root = z
                                    THEN [h3 EXCEPT !.min_root = successor]
                                    ELSE h3, debug_assertions)
         IN  [h |-> h5, val |-> entry]

(* mutant: the minimum pointer is left on the extracted node when the heap *)
(* becomes empty                                                         *)
delete_min_keeps_min_root(h, debug_assertions) ==
    IF h.min_root = NONE
    THEN [h |-> h, val |-> NoEntry]
    ELSE LET z == h.min_root
             h1 == IF h.nodes[z].child # NONE
                   THEN [promote_children(h, h.nodes[z].child)
                            EXCEPT !.nodes[z].child = NONE]
                   ELSE h
             successor == h1.nodes[z].right
             h2 == detach(h1, z)
             h3 == [h2 EXCEPT !.n = @ - 1]
             entry == h3.nodes[z].entry
             h4 == [h3 EXCEPT !.positions[entry[1]] = NOT_IN_HEAP]
             h5 == IF h4.n = 0
                   THEN h4
                   ELSE consolidate(IF h4.min_root = z
                                    THEN [h4 EXCEPT !.min_root = successor]
                                    ELSE h4, debug_assertions)
         IN  [h |-> h5, val |-> entry]

(* mutant: z is not taken out of the root ring *)
delete_min_keeps_z_linked(h, debug_assertions) ==
    IF h.min_root = NONE
    THEN [h |-> h, val |-> NoEntry]
    ELSE LET z == h.min_root
             h1 == IF h.nodes[z].child # NONE
                   THEN [promote_children(h, h.nodes[z].child)
                            EXCEPT !.nodes[z].child = NONE]
                   ELSE h
             successor == h1.nodes[z].right
             h3 == [h1 EXCEPT !.n = @ - 1]
             entry == h3.nodes[z].entry
             h4 == [h3 EXCEPT !.positions[entry[1]] = NOT_IN_HEAP]
             h5 == IF h4.n = 0
                   THEN [h4 EXCEPT !.min_root = NONE]
                   ELSE consolidate(IF h4.min_root = z
                                    THEN [h4 EXCEPT !.min_root = successor]
                                    ELSE h4, debug_assertions)
         IN  [h |-> h5, val |-> entry]

(* the heap after delete_min (h), and what it returns (val) *)
delete_min(h, debug_assertions) ==
    IF h.min_root = NONE
    THEN [h |-> h, val |-> NoEntry]
    ELSE LET z == h.min_root
             h1 == IF h.nodes[z].child # NONE
                   THEN [promote_children(h, h.nodes[z].child)
                            EXCEPT !.nodes[z].child = NONE]
                   ELSE h
             successor == h1.nodes[z].right
             h2 == detach(h1, z)
             h3 == [h2 EXCEPT !.n = @ - 1]
             entry == h3.nodes[z].entry
             h4 == [h3 EXCEPT !.positions[entry[1]] = NOT_IN_HEAP]
             h5 == IF h4.n = 0
                   THEN [h4 EXCEPT !.min_root = NONE]
                   ELSE consolidate(IF h4.min_root = z
                                    THEN [h4 EXCEPT !.min_root = successor]
                                    ELSE h4, debug_assertions)
         IN  [h |-> h5, val |-> entry]

(* mutant: the key is lowered in place and the node is never cut *)
decrease_key_without_cut(h, id, new_key, debug_assertions) ==
    IF id >= Len0(h.positions)
    THEN [h EXCEPT !.panicked = TRUE]
    ELSE LET idx == h.positions[id]
         IN  IF idx >= Len0(h.nodes)
             THEN [h EXCEPT !.panicked = TRUE]
             ELSE IF debug_assertions /\ ~(h.nodes[idx].entry[2] > new_key)
             THEN [h EXCEPT !.panicked = TRUE]
             ELSE update_min([h EXCEPT !.nodes[idx].entry[2] = new_key], idx)

decrease_key(h, id, new_key, debug_assertions) ==
    IF id >= Len0(h.positions)
    THEN [h EXCEPT !.panicked = TRUE]
    ELSE LET idx == h.positions[id]
         IN  IF idx >= Len0(h.nodes)
             THEN [h EXCEPT !.panicked = TRUE]
             ELSE IF debug_assertions /\ ~(h.nodes[idx].entry[2] > new_key)
             THEN [h EXCEPT !.panicked = TRUE]
             ELSE LET h1 == [h EXCEPT !.nodes[idx].entry[2] = new_key]
                      p == h1.nodes[idx].parent
                      h2 == IF p # NONE
                               /\ h1.nodes[idx].entry[2] < h1.nodes[p].entry[2]
                            THEN cascading_cut(cut(h1, idx, p), p)
                            ELSE h1
                  IN  update_min(h2, idx)

(* assert_heap_ok(&self, last_key), compiled with debug assertions only:   *)
(* TRUE when no assert! of the scan fails.  A node is skipped when the     *)
(* position-index entry of its id is the sentinel.                         *)
assert_heap_ok(h, last_key) ==
    \A i \in DOMAIN h.nodes :
        LET node == h.nodes[i]
        IN  \/ h.positions[node.entry[1]] = NOT_IN_HEAP
            \/ LET k == node.entry[2]
               IN  /\ k >= last_key
                   /\ node.parent # NONE => h.nodes[node.parent].entry[2] <= k

-----------------------------------------------------------------------------
(* MinHeap of src/src/minheap.rs, the binary heap with the same API.  A    *)
(* MinHeap is the record of its fields heap and positions, and `panicked`. *)

usize_MAX == NOT_IN_HEAP

(* Vec::swap *)
Swap(v, i, j) == [v EXCEPT ![i] = v[j], ![j] = v[i]]

mh_is_empty(m) == Len0(m.heap) = 0

RECURSIVE bubble_up(_, _)
bubble_up(m, index) ==
    IF index > 0
    THEN LET parent == (index - 1) \div 2
         IN  IF m.heap[index][2] < m.heap[parent][2]
             THEN LET heap1 == Swap(m.heap, index, parent)
                      child_id == heap1[index][1]
                      parent_id == heap1[parent][1]
                      p1 == [m.positions EXCEPT ![child_id] = index]
                      p2 == [p1 EXCEPT ![parent_id] = parent]
                  IN  bubble_up([m EXCEPT !.heap = heap1, !.positions = p2],
                                parent)
             ELSE m
    ELSE m

RECURSIVE bubble_down(_, _)

(* mutant: the left child is taken for the smaller child *)
bubble_down_left_only(m, index) ==
    LET heap_len == Len0(m.heap)
        left_child == (2 * index) + 1
    IN  IF left_child >= heap_len
        THEN m
        ELSE IF m.heap[left_child][2] < m.heap[index][2]
             THEN LET child_id == m.heap[left_child][1]
                      parent_id == m.heap[index][1]
                      heap1 == Swap(m.heap, left_child, index)
                      p1 == [m.positions EXCEPT ![parent_id] = left_child]
                      p2 == [p1 EXCEPT ![child_id] = index]
                  IN  bubble_down([m EXCEPT !.heap = heap1, !.positions = p2],
                                  left_child)
             ELSE m

bubble_down(m, index) ==
    LET heap_len == Len0(m.heap)
        left_child == (2 * index) + 1
        right_child == (2 * index) + 2
    IN  IF left_child >= heap_len
        THEN m
        ELSE LET smaller_child ==
                     IF right_child < heap_len
                        /\ m.heap[right_child][2] < m.heap[left_child][2]
                     THEN right_child
                     ELSE left_child
             IN  IF m.heap[smaller_child][2] < m.heap[index][2]
                 THEN LET child_id == m.heap[smaller_child][1]
                          parent_id == m.heap[index][1]
                          heap1 == Swap(m.heap, smaller_child, index)
                          p1 == [m.positions EXCEPT ![parent_id] = smaller_child]
                          p2 == [p1 EXCEPT ![child_id] = index]
                      IN  bubble_down([m EXCEPT !.heap = heap1,
                                                !.positions = p2],
                                      smaller_child)
                 ELSE m

mh_insert(m, item) ==
    LET m1 == [m EXCEPT !.heap = Push(@, item)]
        idx == Len0(m1.heap) - 1
        id == m1.heap[idx][1]
        m2 == IF id >= Len0(m1.positions)
              THEN [m1 EXCEPT !.positions = Resize(@, id + 1, usize_MAX)]
              ELSE m1
        m3 == [m2 EXCEPT !.positions[id] = idx]
    IN  bubble_up(m3, idx)

(* the MinHeap after delete_min (h), and what it returns (val) *)
mh_delete_min(m) ==
    IF mh_is_empty(m)
    THEN [h |-> m, val |-> NoEntry]
    ELSE LET last_item == Len0(m.heap) - 1
             heap1 == Swap(m.heap, 0, last_item)
             min == heap1[last_item]
             m1 == [m EXCEPT !.heap = Resize(heap1, last_item, NoEntry)]
             m2 == [m1 EXCEPT !.positions[min[1]] = usize_MAX]
             m3 == IF ~mh_is_empty(m2)
                   THEN LET root_id == m2.heap[0][1]
                        IN  bubble_down([m2 EXCEPT !.positions[root_id] = 0], 0)
                   ELSE m2
         IN  [h |-> m3, val |-> min]

mh_get_min(m) == IF Len0(m.heap) > 0 THEN m.heap[0] ELSE NoEntry

mh_decrease_key(m, id, new_key) ==
    IF id >= Len0(m.positions)
    THEN [m EXCEPT !.panicked = TRUE]
    ELSE LET pos_id == m.positions[id]
         IN  IF pos_id >= Len0(m.heap)
             THEN [m EXCEPT !.panicked = TRUE]
             ELSE bubble_up([m EXCEPT !.heap[pos_id][2] = new_key], pos_id)

-----------------------------------------------------------------------------
(* The program: one FibHeap and the calls of its public methods.  `live`   *)
(* and `hist` are history variables: what the contract of the calls made   *)
(* so far says the heap holds, and how many calls of each kind were made.  *)
(* hist.build is the build as far as the run has shown it: "any" until a   *)
(* debug_assert! is reached whose condition is false, then "debug" (it     *)
(* panicked) or "release" (it was compiled out) for the rest of the run.   *)

(* prev: the key the call before returned, when this call and that one are *)
(* delete_min calls that each returned an item; NONE otherwise             *)
Call(op, arg, val) == [op |-> op, arg |-> arg, val |-> val, prev |-> NONE]

Becomes(h) ==
    /\ nodes' = h.nodes
    /\ positions' = h.positions
    /\ min_root' = h.min_root
    /\ n' = h.n
    /\ scratch_roots' = h.scratch_roots
    /\ scratch_aux' = h.scratch_aux
    /\ panicked' = h.panicked

LiveIds == {e[1] : e \in live}

(* the values cfg!(debug_assertions) may have in this run *)
Builds == IF hist.build = "any" THEN BOOLEAN ELSE {hist.build = "debug"}

KeyOf(id) == (CHOOSE e \in live : e[1] = id)[2]

Init ==
    /\ nodes = new.nodes
    /\ positions = new.positions
    /\ min_root = new.min_root
    /\ n = new.n
    /\ scratch_roots = new.scratch_roots
    /\ scratch_aux = new.scratch_aux
    /\ panicked = new.panicked
    /\ ret = Call("new", << >>, NoEntry)
    /\ live = {}
    /\ hist = [inserts |-> 0, extracts |-> 0, clears |-> 0,
               violations |-> 0, build |-> "any"]
    /\ input = << >>
    /\ output = << >>
    /\ fresh = [h |-> new, val |-> NoEntry]
    /\ baseline = [h |-> mh_new, val |-> NoEntry]

(* insert((id, key)) with id not live *)
Insert ==
    \E id \in Ids, key \in Keys, debug_assertions \in Builds :
        /\ ~panicked
        /\ hist.inserts < MaxInserts
        /\ id <= Len0(positions) + MaxIdGap
        /\ id \notin LiveIds
        /\ Becomes(insert(Self, id, key, debug_assertions))
        /\ ret' = Call("insert", <<id, key>>, NoEntry)
        /\ live' = live \cup {<<id, key>>}
        /\ hist' = [hist EXCEPT !.inserts = @ + 1]
        /\ UNCHANGED <<input, output, fresh, baseline>>

(* get_min(&self): a read of the heap, whose result is get_min(Self) *)
GetMin ==
    /\ ~panicked
    /\ UNCHANGED vars

DeleteMin ==
    \E debug_assertions \in Builds :
        /\ ~panicked
        /\ LET r == delete_min(Self, debug_assertions)
           IN  /\ Becomes(r.h)
               /\ ret' = [Call("delete_min", << >>, r.val) EXCEPT
                             !.prev = IF ret.op = "delete_min"
                                         /\ ret.val # NoEntry /\ r.val # NoEntry
                                      THEN ret.val[2] ELSE NONE]
               /\ live' = live \ {r.val}
               /\ hist' = IF r.val # NoEntry
                          THEN [hist EXCEPT !.extracts = @ + 1]
                          ELSE hist
        /\ UNCHANGED <<input, output, fresh, baseline>>

(* decrease_key(id, new_key) with id live and new_key strictly smaller *)
DecreaseKey ==
    \E id \in LiveIds, new_key \in Keys, debug_assertions \in Builds :
        /\ ~panicked
        /\ new_key < KeyOf(id)
        /\ Becomes(decrease_key(Self, id, new_key, debug_assertions))
        /\ ret' = Call("decrease_key", <<id, new_key>>, NoEntry)
        /\ live' = (live \ {<<id, KeyOf(id)>>}) \cup {<<id, new_key>>}
        /\ UNCHANGED <<hist, input, output, fresh, baseline>>

Clear ==
    /\ ~panicked
    /\ hist.clears < MaxClears
    /\ Becomes(clear(Self))
    /\ ret' = Call("clear", << >>, NoEntry)
    /\ live' = {}
    /\ hist' = [hist EXCEPT !.clears = @ + 1]
    /\ UNCHANGED <<input, output, fresh, baseline>>

Next == Insert \/ GetMin \/ DeleteMin \/ DecreaseKey \/ Clear

Spec == Init /\ [][Next]_vars

-----------------------------------------------------------------------------
(* Calls that break the contract: insert of a live id, decrease_key to a   *)
(* key that is not smaller.  The contract rejects them, so `live` stays.   *)

BuildOf(debug_assertions) == IF debug_assertions THEN "debug" ELSE "release"

InsertDuplicate ==
    \E id \in LiveIds, key \in Keys, debug_assertions \in Builds :
        /\ ~panicked
        /\ hist.violations < MaxViolations
        /\ Becomes(insert(Self, id, key, debug_assertions))
        /\ ret' = Call("insert", <<id, key>>, NoEntry)
        /\ hist' = [hist EXCEPT !.violations = @ + 1,
                                !.build = BuildOf(debug_assertions)]
        /\ UNCHANGED <<live, input, output, fresh, baseline>>

DecreaseKeyNotSmaller ==
    \E id \in LiveIds, new_key \in Keys, debug_assertions \in Builds :
        /\ ~panicked
        /\ hist.violations < MaxViolations
        /\ new_key >= KeyOf(id)
        /\ Becomes(decrease_key(Self, id, new_key, debug_assertions))
        /\ ret' = Call("decrease_key", <<id, new_key>>, NoEntry)
        /\ hist' = [hist EXCEPT !.violations = @ + 1,
                                !.build = BuildOf(debug_assertions)]
        /\ UNCHANGED <<live, input, output, fresh, baseline>>

ContractInsert == Insert /\ hist'.inserts <= MaxContractInserts

ContractNext ==
    \/ ContractInsert
    \/ GetMin
    \/ DeleteMin
    \/ DecreaseKey
    \/ Clear
    \/ InsertDuplicate
    \/ DecreaseKeyNotSmaller

ContractSpec == Init /\ [][ContractNext]_vars

-----------------------------------------------------------------------------
(* decrease_key of an id that is not live: never inserted (past the end of *)
(* the position index, or in a gap of it), extracted, or cleared.  The     *)
(* contract rejects the call, so `live` stays.                             *)

AbsentIds == 0..(MaxAbsentInserts + MaxAbsentGap)

(* insert((id, key)) with id not live, ids with gaps *)
SparseInsert ==
    \E id \in AbsentIds, key \in Keys, debug_assertions \in Builds :
        /\ ~panicked
        /\ hist.inserts < MaxAbsentInserts
        /\ id <= Len0(positions) + MaxAbsentGap
        /\ id \notin LiveIds
        /\ Becomes(insert(Self, id, key, debug_assertions))
        /\ ret' = Call("insert", <<id, key>>, NoEntry)
        /\ live' = live \cup {<<id, key>>}
        /\ hist' = [hist EXCEPT !.inserts = @ + 1]
        /\ UNCHANGED <<input, output, fresh, baseline>>

DecreaseKeyAbsent ==
    \E id \in AbsentIds \ LiveIds, new_key \in Keys,
       debug_assertions \in Builds :
        /\ ~panicked
        /\ Becomes(decrease_key(Self, id, new_key, debug_assertions))
        /\ ret' = Call("decrease_key", <<id, new_key>>, NoEntry)
        /\ hist' = [hist EXCEPT !.violations = @ + 1]
        /\ UNCHANGED <<live, input, output, fresh, baseline>>

AbsentNext ==
    \/ SparseInsert
    \/ GetMin
    \/ DeleteMin
    \/ DecreaseKey
    \/ Clear
    \/ DecreaseKeyAbsent

AbsentSpec == Init /\ [][AbsentNext]_vars

-----------------------------------------------------------------------------
(* clear() against new(): from the clear on, `fresh` is a heap made by     *)
(* new() at that moment that is given every call the heap is given.        *)
(* fresh.h is that heap, fresh.val what its last call returned.            *)

FreshInsert ==
    \E id \in Ids, key \in Keys, debug_assertions \in Builds :
        /\ ~panicked
        /\ hist.inserts < MaxInserts
        /\ id <= Len0(positions) + MaxIdGap
        /\ hist.clears = 0 => hist.inserts < MaxInsertsBeforeClear
        /\ id \notin LiveIds
        /\ Becomes(insert(Self, id, key, debug_assertions))
        /\ ret' = Call("insert", <<id, key>>, NoEntry)
        /\ live' = live \cup {<<id, key>>}
        /\ hist' = [hist EXCEPT !.inserts = @ + 1]
        /\ fresh' = IF hist.clears > 0
                    THEN [h |-> insert(fresh.h, id, key, debug_assertions),
                          val |-> NoEntry]
                    ELSE fresh
        /\ UNCHANGED <<input, output, baseline>>

FreshDeleteMin ==
    \E debug_assertions \in Builds :
        /\ ~panicked
        /\ LET r == delete_min(Self, debug_assertions)
           IN  /\ Becomes(r.h)
               /\ ret' = Call("delete_min", << >>, r.val)
               /\ live' = live \ {r.val}
               /\ hist' = IF r.val # NoEntry
                          THEN [hist EXCEPT !.extracts = @ + 1]
                          ELSE hist
        /\ fresh' = IF hist.clears > 0
                    THEN delete_min(fresh.h, debug_assertions)
                    ELSE fresh
        /\ UNCHANGED <<input, output, baseline>>

FreshDecreaseKey ==
    \E id \in LiveIds, new_key \in Keys, debug_assertions \in Builds :
        /\ ~panicked
        /\ new_key < KeyOf(id)
        /\ Becomes(decrease_key(Self, id, new_key, debug_assertions))
        /\ ret' = Call("decrease_key", <<id, new_key>>, NoEntry)
        /\ live' = (live \ {<<id, KeyOf(id)>>}) \cup {<<id, new_key>>}
        /\ fresh' = IF hist.clears > 0
                    THEN [h |-> decrease_key(fresh.h, id, new_key,
                                             debug_assertions),
                          val |-> NoEntry]
                    ELSE fresh
        /\ UNCHANGED <<hist, input, output, baseline>>

FreshClear ==
    /\ ~panicked
    /\ hist.clears < MaxClears
    /\ Becomes(clear(Self))
    /\ ret' = Call("clear", << >>, NoEntry)
    /\ live' = {}
    /\ hist' = [hist EXCEPT !.clears = @ + 1]
    /\ fresh' = [h |-> new, val |-> NoEntry]
    /\ UNCHANGED <<input, output, baseline>>

ClearNext ==
    \/ FreshInsert
    \/ GetMin
    \/ FreshDeleteMin
    \/ FreshDecreaseKey
    \/ FreshClear

ClearSpec == Init /\ [][ClearNext]_vars

-----------------------------------------------------------------------------
(* The FibHeap and a MinHeap given the same calls, each call valid on both *)
(* (the two may hold different ids once they have returned different items *)
(* of one key).  baseline.h is the MinHeap, baseline.val what its last     *)
(* call returned.                                                          *)

(* the items the MinHeap holds *)
BaselineItems == {baseline.h.heap[i] : i \in DOMAIN baseline.h.heap}

BaselineIds == {e[1] : e \in BaselineItems}

DiffInsert ==
    \E id \in Ids, key \in Keys, debug_assertions \in Builds :
        /\ ~panicked
        /\ hist.inserts < MaxDiffInserts
        /\ id <= Len0(positions) + MaxIdGap
        /\ id \notin LiveIds
        /\ id \notin BaselineIds
        /\ Becomes(insert(Self, id, key, debug_assertions))
        /\ ret' = Call("insert", <<id, key>>, NoEntry)
        /\ live' = live \cup {<<id, key>>}
        /\ hist' = [hist EXCEPT !.inserts = @ + 1]
        /\ baseline' = [h |-> mh_insert(baseline.h, <<id, key>>),
                        val |-> NoEntry]
        /\ UNCHANGED <<input, output, fresh>>

DiffDeleteMin ==
    \E debug_assertions \in Builds :
        /\ ~panicked
        /\ LET r == delete_min(Self, debug_assertions)
           IN  /\ Becomes(r.h)
               /\ ret' = Call("delete_min", << >>, r.val)
               /\ live' = live \ {r.val}
               /\ hist' = IF r.val # NoEntry
                          THEN [hist EXCEPT !.extracts = @ + 1]
                          ELSE hist
        /\ baseline' = mh_delete_min(baseline.h)
        /\ UNCHANGED <<input, output, fresh>>

DiffDecreaseKey ==
    \E id \in LiveIds \cap BaselineIds, new_key \in Keys,
       debug_assertions \in Builds :
        /\ ~panicked
        /\ new_key < KeyOf(id)
        /\ Becomes(decrease_key(Self, id, new_key, debug_assertions))
        /\ ret' = Call("decrease_key", <<id, new_key>>, NoEntry)
        /\ live' = (live \ {<<id, KeyOf(id)>>}) \cup {<<id, new_key>>}
        /\ baseline' = [h |-> mh_decrease_key(baseline.h, id, new_key),
                        val |-> NoEntry]
        /\ UNCHANGED <<hist, input, output, fresh>>

DiffNext ==
    \/ DiffInsert
    \/ GetMin
    \/ DiffDeleteMin
    \/ DiffDecreaseKey

DiffSpec == Init /\ [][DiffNext]_vars

-----------------------------------------------------------------------------
(* Heaps deep enough for a cascading cut: inserts of new ids, then one     *)
(* delete_min, which consolidates the roots into trees, then decrease_key  *)
(* calls on the nodes of these trees.  At most MaxCascadeLow live items    *)
(* have a key below MaxKey.                                                *)

LowItems == {e \in live : e[2] < MaxKey}

CascadeInsert ==
    \E key \in Keys, debug_assertions \in Builds :
        LET id == hist.inserts
        IN  /\ ~panicked
            /\ ret.op \in {"new", "insert"}
            /\ hist.inserts < MaxCascadeInserts
            /\ key < MaxKey => Cardinality(LowItems) < MaxCascadeLow
            /\ Becomes(insert(Self, id, key, debug_assertions))
            /\ ret' = Call("insert", <<id, key>>, NoEntry)
            /\ live' = live \cup {<<id, key>>}
            /\ hist' = [hist EXCEPT !.inserts = @ + 1]
            /\ UNCHANGED <<input, output, fresh, baseline>>

CascadeDeleteMin == DeleteMin /\ hist.extracts < MaxCascadeExtracts

CascadeDecreaseKey ==
    /\ DecreaseKey
    /\ hist.extracts > 0
    /\ Cardinality(LowItems') <= MaxCascadeLow

CascadeNext ==
    \/ CascadeInsert
    \/ GetMin
    \/ CascadeDeleteMin
    \/ CascadeDecreaseKey

CascadeSpec == Init /\ [][CascadeNext]_vars

-----------------------------------------------------------------------------
(* build_heap, then delete_min until it has returned None *)

BuildIds == 0..MaxItems

(* the sequences of at most MaxItems items with pairwise distinct ids *)
ItemSeqs ==
    UNION {{q \in [1..l -> BuildIds \X Keys] :
               \A i, j \in 1..l : q[i][1] = q[j][1] => i = j} : l \in 0..MaxItems}

BuildInit ==
    /\ nodes = << >>
    /\ positions = << >>
    /\ min_root = NONE
    /\ n = 0
    /\ scratch_roots = << >>
    /\ scratch_aux = << >>
    /\ panicked = FALSE
    /\ ret = Call("start", << >>, NoEntry)
    /\ live = {}
    /\ hist = [inserts |-> 0, extracts |-> 0, clears |-> 0,
               violations |-> 0, build |-> "any"]
    /\ input \in ItemSeqs
    /\ output = << >>
    /\ fresh = [h |-> new, val |-> NoEntry]
    /\ baseline = [h |-> mh_new, val |-> NoEntry]

Build ==
    \E debug_assertions \in Builds :
        /\ ret.op = "start"
        /\ Becomes(build_heap(input, debug_assertions))
        /\ ret' = Call("build_heap", << >>, NoEntry)
        /\ live' = {input[i] : i \in 1..Len(input)}
        /\ hist' = [hist EXCEPT !.inserts = Len(input)]
        /\ UNCHANGED <<input, output, fresh, baseline>>

Pop ==
    \E debug_assertions \in Builds :
        /\ ret.op # "start"
        /\ ~panicked
        /\ Len(output) <= Len(input)
        /\ LET r == delete_min(Self, debug_assertions)
           IN  /\ Becomes(r.h)
               /\ ret' = Call("delete_min", << >>, r.val)
               /\ live' = live \ {r.val}
               /\ hist' = IF r.val # NoEntry
                          THEN [hist EXCEPT !.extracts = @ + 1]
                          ELSE hist
               /\ output' = Append(output, r.val)
        /\ UNCHANGED <<input, fresh, baseline>>

BuildNext == Build \/ Pop

BuildSpec == BuildInit /\ [][BuildNext]_vars

-----------------------------------------------------------------------------
(* Views of the heap that the properties are stated in *)

(* the ids the position index holds *)
PosIds == {id \in DOMAIN positions : positions[id] # NOT_IN_HEAP}

(* the items the position index resolves to *)
Items ==
    {<<id, IF positions[id] \in DOMAIN nodes
           THEN nodes[positions[id]].entry[2] ELSE NONE>> : id \in PosIds}

(* the slots a walk over right and child links reaches from the slots in todo *)
RECURSIVE Closure(_, _)
Closure(todo, seen) ==
    IF todo = {}
    THEN seen
    ELSE LET s == CHOOSE t \in todo : TRUE
             nxt == {nodes[s].right, nodes[s].child} \ {NONE}
         IN  Closure((todo \cup nxt) \ (seen \cup {s}), seen \cup {s})

(* the slots in the forest: the root ring of min_root and all child rings *)
Forest == IF min_root = NONE THEN {} ELSE Closure({min_root}, {})

ForestItems == {nodes[s].entry : s \in Forest}

(* the slots delete_min emptied *)
Extracted == DOMAIN nodes \ Forest

(* the slots of the ring of cur, following right *)
RECURSIVE RingOf(_, _)
RingOf(cur, seen) ==
    IF cur \in seen THEN seen ELSE RingOf(nodes[cur].right, seen \cup {cur})

(* the root ring: the ring of the minimum pointer *)
RootRing == IF min_root = NONE THEN {} ELSE RingOf(min_root, {})

(* the slots the position index points to *)
LiveSlots == {positions[id] : id \in PosIds}

(* the traversal of the ring of start from cur on: each node, then the     *)
(* ring of its child, then its right neighbour; at most fuel nodes deep    *)
RECURSIVE Traversal(_, _, _)
Traversal(start, cur, fuel) ==
    IF fuel = 0
    THEN << >>
    ELSE LET c == nodes[cur].child
             r == nodes[cur].right
             below == IF c = NONE THEN << >> ELSE Traversal(c, c, fuel - 1)
             rest == IF r = start THEN << >> ELSE Traversal(start, r, fuel - 1)
         IN  <<cur>> \o below \o rest

(* the slots the traversal from the minimum pointer visits, in order *)
Visited ==
    IF min_root = NONE
    THEN << >>
    ELSE Traversal(min_root, min_root, Len0(nodes) + 1)

-----------------------------------------------------------------------------
(* Properties of FibHeap under valid calls (Spec) *)

(* C1: a delete_min call made while at least one item is live returns an   *)
(* item (id, key) that was live with exactly that key, whose key is at     *)
(* most the key of every item live before the call; afterwards id is not   *)
(* live and all the other items are live with their keys, both in the      *)
(* position index and in the forest.                                       *)
DeleteMinReturnsMinimum ==
    [][(ret'.op = "delete_min" /\ live # {}) =>
          /\ ret'.val \in live
          /\ ret'.val \in Items
          /\ \A e \in live : ret'.val[2] <= e[2]
          /\ Items' = live \ {ret'.val}
          /\ ForestItems' = live \ {ret'.val}
          /\ ret'.val[1] \notin PosIds']_vars

DeleteMinReturnsMinimumWitness ==
    /\ ret.op = "delete_min"
    /\ ret.val # NoEntry
    /\ Cardinality(live) >= 2
    /\ \E e \in live : ret.val[2] < e[2]
    /\ \E s \in Forest : nodes[s].parent # NONE

(* C2: get_min returns None exactly when no item is live, which is exactly *)
(* when len() is 0; otherwise it returns a live item whose key is at most  *)
(* every live key.  (get_min takes &self: it is a function of the heap.)   *)
GetMinIsMinimum ==
    /\ (get_min(Self) = NoEntry) <=> (live = {})
    /\ (len(Self) = 0) <=> (live = {})
    /\ live # {} =>
          /\ get_min(Self) \in live
          /\ \A e \in live : get_min(Self)[2] <= e[2]

GetMinIsMinimumWitness ==
    /\ ret.op = "decrease_key"
    /\ get_min(Self) = ret.arg
    /\ nodes[min_root].left # min_root
    /\ hist.extracts > 0
    /\ \E e \in live : e[2] > ret.arg[2]

(* C3: with no clear so far, after k inserts and j delete_min calls that    *)
(* returned an item, len() is k - j, is_empty() holds exactly when k = j,  *)
(* and len() is the number of ids whose position-index entry is not the    *)
(* sentinel.                                                               *)
SizeAccounting ==
    hist.clears = 0 =>
        /\ len(Self) = hist.inserts - hist.extracts
        /\ is_empty(Self) <=> (hist.inserts = hist.extracts)
        /\ len(Self) = Cardinality(PosIds)

SizeAccountingWitness ==
    /\ hist.clears = 0
    /\ hist.inserts = MaxInserts
    /\ hist.extracts = 2
    /\ ret.op = "decrease_key"
    /\ len(Self) = MaxInserts - 2

(* C4: every node of the forest that has a parent has a key that is at     *)
(* least its parent's key.                                                 *)
HeapOrder ==
    \A s \in Forest :
        nodes[s].parent # NONE =>
            nodes[nodes[s].parent].entry[2] <= nodes[s].entry[2]

HeapOrderWitness ==
    /\ ret.op = "decrease_key"
    /\ \E s \in Forest :
          /\ nodes[s].parent # NONE
          /\ nodes[s].mark
          /\ nodes[nodes[s].parent].entry[2] < nodes[s].entry[2]

(* C5: positions[id] = s, s not the sentinel, exactly when slot s is in    *)
(* the forest and holds id; the ids with an entry are the live ids, so an  *)
(* id extracted and not inserted again, and every id after clear, has the  *)
(* sentinel; no two nodes of the forest hold the same id.                  *)
PositionFidelity ==
    /\ \A id \in DOMAIN positions :
          positions[id] # NOT_IN_HEAP => positions[id] \in DOMAIN nodes
    /\ \A id \in DOMAIN positions, s \in DOMAIN nodes :
          (positions[id] = s) <=> (s \in Forest /\ nodes[s].entry[1] = id)
    /\ \A s \in Forest : nodes[s].entry[1] \in DOMAIN positions
    /\ PosIds = LiveIds
    /\ \A s, t \in Forest : nodes[s].entry[1] = nodes[t].entry[1] => s = t

PositionFidelityWitness ==
    /\ hist.clears = 1
    /\ \E s \in Extracted, t \in Forest : nodes[s].entry[1] = nodes[t].entry[1]
    /\ \E id \in DOMAIN positions : positions[id] = NOT_IN_HEAP

(* C7: of two delete_min calls in a row that each return an item, the      *)
(* second returns a key that is at least the key the first returned.       *)
MonotonePopOrder ==
    (ret.op = "delete_min" /\ ret.prev # NONE) => ret.prev <= ret.val[2]

MonotonePopOrderWitness ==
    /\ ret.op = "delete_min"
    /\ ret.prev # NONE
    /\ ret.prev < ret.val[2]
    /\ live # {}

(* C8: decrease_key(id, new_key) with id live and new_key strictly smaller *)
(* leaves id live with key new_key and every other live item as it was,    *)
(* in the position index and in the forest, and leaves len() as it was.    *)
DecreaseKeyEffect ==
    [][ret'.op = "decrease_key" =>
          LET after == (live \ {e \in live : e[1] = ret'.arg[1]})
                          \cup {ret'.arg}
          IN  /\ Items' = after
              /\ ForestItems' = after
              /\ PosIds' = PosIds
              /\ len(Self)' = len(Self)
              /\ ~panicked']_vars

DecreaseKeyEffectWitness ==
    /\ ret.op = "decrease_key"
    /\ ret.arg \in Items
    /\ Cardinality(live) >= 3
    /\ \E s \in Forest : nodes[s].mark

-----------------------------------------------------------------------------
(* Properties of build_heap (BuildSpec) *)

(* C6: build_heap over items with pairwise distinct ids, then one          *)
(* delete_min per item: the calls return items of the input, no item       *)
(* twice, in non-decreasing key order; after as many calls as items every  *)
(* item was returned and the heap is empty, and the next call returns None.*)
BuildRoundTrip ==
    LET k == IF Len(output) <= Len(input) THEN Len(output) ELSE Len(input)
    IN  /\ \A i \in 1..k : \E j \in 1..Len(input) : output[i] = input[j]
        /\ \A i, j \in 1..k : i < j =>
              output[i] # output[j] /\ output[i][2] <= output[j][2]
        /\ (ret.op # "start" /\ Len(output) >= Len(input)) =>
              is_empty(Self) /\ get_min(Self) = NoEntry
        /\ Len(output) > Len(input) => output[Len(output)] = NoEntry
        /\ ret.op # "start" => len(Self) = Len(input) - k
        /\ ~panicked

BuildRoundTripWitness ==
    /\ Len(input) = MaxItems
    /\ Len(output) = MaxItems + 1
    /\ \E i, j \in 1..Len(input) : i < j /\ input[i][2] > input[j][2]
    /\ \E i, j \in 1..Len(input) : i < j /\ input[i][2] = input[j][2]
    /\ \E i \in 1..Len(input) : input[i][1] = MaxItems

-----------------------------------------------------------------------------
(* The contract of insert and decrease_key (ContractSpec) *)

(* C9: insert of an id that is live is rejected: the call fails and the    *)
(* heap is as before (no second entry for the id, the same len(), the same *)
(* items with the same keys).                                              *)
DuplicateInsertRejected ==
    [][(ret'.op = "insert" /\ ret'.arg[1] \in LiveIds) =>
          /\ panicked'
          /\ len(Self)' = len(Self)
          /\ Items' = Items
          /\ ForestItems' = ForestItems]_vars

(* C10: decrease_key of a live id to a key that is not smaller is rejected: *)
(* the call fails, the stored key is as before, and heap order and the     *)
(* minimum pointer are still right.                                        *)
NotSmallerKeyRejected ==
    [][(ret'.op = "decrease_key" /\ hist'.violations > hist.violations) =>
          /\ panicked'
          /\ Items' = Items
          /\ ForestItems' = ForestItems
          /\ HeapOrder'
          /\ GetMinIsMinimum']_vars

(* C11: decrease_key of an id that is not live (never inserted, past the   *)
(* end of the position index or inside it; extracted by delete_min; or     *)
(* invalidated by clear) fails, and the heap is exactly as before the call:*)
(* no live item is modified and no extracted slot either.                  *)
AbsentIdRejected ==
    [][(ret'.op = "decrease_key" /\ ret'.arg[1] \notin LiveIds) =>
          /\ panicked'
          /\ heap_vars' = heap_vars
          /\ Items' = live
          /\ ForestItems' = live]_vars

(* the id was extracted and its slot is still in the node store, its key   *)
(* above the new key, while other items are live                           *)
AbsentIdRejectedWitness ==
    /\ ret.op = "decrease_key"
    /\ ret.arg[1] \notin LiveIds
    /\ panicked
    /\ live # {}
    /\ \E s \in Extracted :
          nodes[s].entry[1] = ret.arg[1] /\ nodes[s].entry[2] > ret.arg[2]

(* C12: while no item is live (a new heap, after clear, after the last     *)
(* item was extracted) get_min returns None, and a delete_min call returns *)
(* None, does not fail and leaves every field of the heap as it was.       *)
(* (get_min takes &self: it cannot fail to leave the heap as it was.)      *)
EmptyHeapIsNotAnError ==
    [][/\ live = {} => get_min(Self) = NoEntry
       /\ live' = {} => get_min(Self)' = NoEntry
       /\ (ret'.op = "delete_min" /\ live = {}) =>
             /\ ret'.val = NoEntry
             /\ ~panicked'
             /\ heap_vars' = heap_vars]_vars

(* delete_min on a heap emptied by delete_min, after a clear: extracted    *)
(* slots are in the node store and the position index is not empty         *)
EmptyHeapIsNotAnErrorWitness ==
    /\ ret.op = "delete_min"
    /\ ret.val = NoEntry
    /\ hist.clears = 1
    /\ hist.extracts > 0
    /\ Len0(nodes) > 0
    /\ Len0(positions) > 0

-----------------------------------------------------------------------------
(* clear() against new() (ClearSpec) *)

(* C13: right after clear, len() is 0, get_min() is None and every entry   *)
(* of the position index is the sentinel; from then on every call returns  *)
(* what the same call returns on a heap made by new() at the clear and     *)
(* given the same calls: the same delete_min results, and the same         *)
(* get_min(), len() and is_empty() after every call, and neither fails.    *)
ClearPreservesNoState ==
    /\ ret.op = "clear" =>
          /\ len(Self) = 0
          /\ is_empty(Self)
          /\ get_min(Self) = NoEntry
          /\ \A id \in DOMAIN positions : positions[id] = NOT_IN_HEAP
    /\ hist.clears > 0 =>
          /\ ret.val = fresh.val
          /\ get_min(Self) = get_min(fresh.h)
          /\ len(Self) = len(fresh.h)
          /\ is_empty(Self) = is_empty(fresh.h)
          /\ panicked = fresh.h.panicked
          /\ ~panicked

(* after a clear of a heap with an extracted and re-inserted id, a         *)
(* delete_min that consolidates with scratch space longer than the one of  *)
(* the new heap                                                            *)
ClearPreservesNoStateWitness ==
    /\ hist.clears > 0
    /\ ret.op = "delete_min"
    /\ ret.val # NoEntry
    /\ live # {}
    /\ Len0(scratch_aux) > Len0(fresh.h.scratch_aux)
    /\ Len0(positions) > Len0(fresh.h.positions)
    /\ Len0(fresh.h.nodes) = Len0(nodes)

-----------------------------------------------------------------------------
(* The FibHeap against the MinHeap (DiffSpec) *)

(* C14 as claimed: under the same valid insert, decrease_key, get_min and delete_min  *)
(* calls (distinct live ids, keys that may repeat) every delete_min and    *)
(* every get_min returns the same Option<(id, key)> on the FibHeap and on  *)
(* the MinHeap, and is_empty() agrees after every call.                    *)
SameResultsAsMinHeap ==
    /\ ret.val = baseline.val
    /\ get_min(Self) = mh_get_min(baseline.h)
    /\ is_empty(Self) = mh_is_empty(baseline.h)

(* C14, amended: under the same insert, decrease_key, get_min and          *)
(* delete_min calls, each valid on both heaps, every delete_min and every  *)
(* get_min returns None on both or items with the same key on both, and    *)
(* is_empty() agrees after every call; the ids are the same too whenever   *)
(* both heaps hold the same items and only one of them has the smallest    *)
(* key.  Neither heap fails.                                               *)
SameKeysAsMinHeap ==
    LET fib == get_min(Self)
        bin == mh_get_min(baseline.h)
    IN  /\ (ret.val = NoEntry) <=> (baseline.val = NoEntry)
        /\ ret.val # NoEntry => ret.val[2] = baseline.val[2]
        /\ (fib = NoEntry) <=> (bin = NoEntry)
        /\ fib # NoEntry => fib[2] = bin[2]
        /\ is_empty(Self) = mh_is_empty(baseline.h)
        /\ (/\ BaselineItems = live
            /\ Cardinality({e \in live : \A f \in live : e[2] <= f[2]}) = 1)
              => fib = bin
        /\ ~panicked
        /\ ~baseline.h.panicked

(* two delete_min calls that returned different ids of one key, so that    *)
(* the heaps hold different ids, and a decrease_key after them             *)
SameKeysAsMinHeapWitness ==
    /\ ret.op = "decrease_key"
    /\ BaselineItems # live
    /\ Cardinality(live) >= 2
    /\ get_min(Self) = mh_get_min(baseline.h)
    /\ hist.extracts >= 2

-----------------------------------------------------------------------------
(* The root ring (Spec) *)

OneRootPerDegree ==
    \A s, t \in RootRing : nodes[s].degree = nodes[t].degree => s = t

(* C15 as claimed: after every insert, decrease_key, delete_min and clear  *)
(* the root ring has at most one root of each degree.                      *)
OneRootPerDegreeBetweenOperations ==
    ret.op \in {"new", "insert", "decrease_key", "delete_min", "clear"} =>
        OneRootPerDegree

(* C15, amended: after every delete_min and every clear (and in a new      *)
(* heap) the root ring has at most one root of each degree; insert and     *)
(* decrease_key add roots without consolidating, so between two delete_min *)
(* calls several roots may have the same degree.                           *)
OneRootPerDegreeAfterDeleteMin ==
    ret.op \in {"new", "delete_min", "clear"} => OneRootPerDegree

(* the second of two delete_min calls in a row leaves two roots *)
OneRootPerDegreeAfterDeleteMinWitness ==
    /\ ret.op = "delete_min"
    /\ ret.prev # NONE
    /\ Cardinality(RootRing) = 2
    /\ hist.inserts = MaxInserts

(* C16: right after a delete_min that leaves at least one live item, no    *)
(* two nodes of the root ring have the same degree, every node of the root *)
(* ring has parent None, and the root ring with its subtrees is exactly    *)
(* the set of live nodes: the slots the position index points to, holding  *)
(* the live items.                                                         *)
DegreesUniqueAfterConsolidate ==
    (ret.op = "delete_min" /\ ret.val # NoEntry /\ live # {}) =>
        /\ \A s, t \in RootRing :
              s # t => nodes[s].degree # nodes[t].degree
        /\ \A s \in RootRing : nodes[s].parent = NONE
        /\ Forest = LiveSlots
        /\ ForestItems = live
        /\ Cardinality(Forest) = Cardinality(live)

(* the extracted minimum had children, and a root of degree 0 and a root   *)
(* of degree at least 1 are left, with a node below the root ring          *)
DegreesUniqueAfterConsolidateWitness ==
    /\ ret.op = "delete_min"
    /\ ret.val # NoEntry
    /\ Cardinality(RootRing) >= 2
    /\ \E s \in RootRing : nodes[s].degree >= 1
    /\ \E s \in Extracted : nodes[s].degree >= 1

-----------------------------------------------------------------------------
(* Cut and cascading cut (CascadeSpec) *)

(* y and the ancestors after it, as long as each is a marked non-root *)
RECURSIVE MarkedChain(_)
MarkedChain(y) ==
    IF nodes[y].parent # NONE /\ nodes[y].mark
    THEN {y} \cup MarkedChain(nodes[y].parent)
    ELSE {}

(* the first of y and its ancestors that is not a marked non-root *)
RECURSIVE StoppingPoint(_)
StoppingPoint(y) ==
    IF nodes[y].parent # NONE /\ nodes[y].mark
    THEN StoppingPoint(nodes[y].parent)
    ELSE y

(* the nodes above y *)
RECURSIVE Above(_)
Above(y) ==
    IF nodes[y].parent = NONE
    THEN {}
    ELSE {nodes[y].parent} \cup Above(nodes[y].parent)

(* C18: decrease_key(id, new_key) on a node x with parent p and new_key    *)
(* below p's key: x ends as an unmarked root and p's degree drops by one;  *)
(* from p upward every marked non-root in a row is cut and ends as an      *)
(* unmarked root; the first ancestor that is not one stops the walk: an    *)
(* unmarked non-root becomes marked and keeps its parent, a root stays     *)
(* unmarked; the nodes above it keep key, degree, mark, parent and child.  *)
(* When x is a root or new_key is not below p's key, every node keeps its  *)
(* parent and its mark.                                                    *)
CutAndCascadingCut ==
    [][ret'.op = "decrease_key" =>
          LET x == positions[ret'.arg[1]]
              p == nodes[x].parent
          IN  IF p # NONE /\ ret'.arg[2] < nodes[p].entry[2]
              THEN LET stop == StoppingPoint(p)
                   IN  /\ nodes'[x].parent = NONE
                       /\ ~nodes'[x].mark
                       /\ x \in RootRing'
                       /\ nodes'[p].degree = nodes[p].degree - 1
                       /\ \A y \in MarkedChain(p) :
                             /\ nodes'[y].parent = NONE
                             /\ ~nodes'[y].mark
                             /\ y \in RootRing'
                       /\ IF nodes[stop].parent # NONE
                          THEN /\ nodes'[stop].mark
                               /\ nodes'[stop].parent = nodes[stop].parent
                          ELSE /\ ~nodes'[stop].mark
                               /\ nodes'[stop].parent = NONE
                       /\ \A a \in Above(stop) :
                             /\ nodes'[a].entry = nodes[a].entry
                             /\ nodes'[a].degree = nodes[a].degree
                             /\ nodes'[a].mark = nodes[a].mark
                             /\ nodes'[a].parent = nodes[a].parent
                             /\ nodes'[a].child = nodes[a].child
              ELSE \A s \in DOMAIN nodes :
                       /\ nodes'[s].parent = nodes[s].parent
                       /\ nodes'[s].mark = nodes[s].mark]_vars

(* after a decrease_key the root ring holds, next to the node the call     *)
(* cut, two nodes with keys above the new key: the root of the tree, which *)
(* has lost a child, and a node the cascading cut made a root              *)
CutAndCascadingCutWitness ==
    /\ ret.op = "decrease_key"
    /\ hist.inserts = MaxCascadeInserts
    /\ positions[ret.arg[1]] \in RootRing
    /\ \E r, y \in RootRing :
          /\ r # y
          /\ nodes[r].entry[2] > ret.arg[2]
          /\ nodes[y].entry[2] > ret.arg[2]
          /\ nodes[r].degree >= 2

-----------------------------------------------------------------------------
(* The debug self-check (Spec) *)

(* C19: under valid calls, with clear and with ids inserted again after    *)
(* their extraction, assert_heap_ok(k) called right after a delete_min     *)
(* that returned key k does not fail.                                      *)
SelfCheckPasses ==
    (ret.op = "delete_min" /\ ret.val # NoEntry) =>
        assert_heap_ok(Self, ret.val[2])

-----------------------------------------------------------------------------
(* The rings (Spec) *)

(* C20: after every call, for every live node i, left(right(i)) = i and    *)
(* right(left(i)) = i; the nodes of the ring of i have the parent of i;    *)
(* i lies in the root ring when it has no parent and in the ring of its    *)
(* parent's child otherwise, and two rings of live nodes are the same ring *)
(* or share no node; the traversal from the minimum pointer over the root  *)
(* ring and every child ring visits every live node exactly once and no    *)
(* other slot, so it visits len() nodes.                                   *)
RingsWellFormed ==
    /\ \A i \in LiveSlots :
          /\ nodes[nodes[i].right].left = i
          /\ nodes[nodes[i].left].right = i
          /\ \A j \in RingOf(i, {}) : nodes[j].parent = nodes[i].parent
          /\ IF nodes[i].parent = NONE
             THEN i \in RootRing
             ELSE /\ nodes[nodes[i].parent].child # NONE
                  /\ i \in RingOf(nodes[nodes[i].parent].child, {})
    /\ \A i, j \in LiveSlots :
          \/ RingOf(i, {}) = RingOf(j, {})
          \/ RingOf(i, {}) \cap RingOf(j, {}) = {}
    /\ \A k \in 1..Len(Visited) : Visited[k] \in LiveSlots
    /\ \A i \in LiveSlots :
          Cardinality({k \in 1..Len(Visited) : Visited[k] = i}) = 1
    /\ Len(Visited) = len(Self)

(* a child ring of two nodes under a root, a root ring of two roots after  *)
(* a cut, and an extracted slot                                            *)
RingsWellFormedWitness ==
    /\ ret.op = "decrease_key"
    /\ Cardinality(RootRing) >= 2
    /\ \E p \in LiveSlots :
          /\ nodes[p].degree >= 2
          /\ Cardinality(RingOf(nodes[p].child, {})) >= 2
    /\ \E s \in DOMAIN nodes : s \notin LiveSlots

-----------------------------------------------------------------------------
(* Degree and child pointer (Spec) *)

(* the child ring of p: the ring of the node p.child names *)
ChildRing(p) == IF nodes[p].child = NONE THEN {} ELSE RingOf(nodes[p].child, {})

(* C21: after every call, for every live node p, the ring reached from     *)
(* p.child has exactly p.degree nodes, each of them live with parent p;    *)
(* p.child is None exactly when p.degree is 0; no degree is below 0.       *)
DegreeMatchesChildRing ==
    \A p \in LiveSlots :
        /\ nodes[p].degree >= 0
        /\ Cardinality(ChildRing(p)) = nodes[p].degree
        /\ \A c \in ChildRing(p) : c \in LiveSlots /\ nodes[c].parent = p
        /\ (nodes[p].child = NONE) <=> (nodes[p].degree = 0)

(* a decrease_key has cut the designated child of a root of degree 2: the  *)
(* root is left with degree 1 and its child pointer names the sibling, the *)
(* child of degree 1.  (link joins trees of equal degree and the first     *)
(* child linked is the designated one, so a root of degree 1 over a child  *)
(* of degree 1 has lost its first, designated, child.)                     *)
DegreeMatchesChildRingWitness ==
    /\ ret.op = "decrease_key"
    /\ positions[ret.arg[1]] \in RootRing
    /\ nodes[positions[ret.arg[1]]].degree = 0
    /\ \E p \in RootRing :
          /\ nodes[p].degree = 1
          /\ nodes[p].child # NONE
          /\ nodes[nodes[p].child].degree = 1
          /\ nodes[p].entry[2] > ret.arg[2]

-----------------------------------------------------------------------------
(* Slots and ids inserted again (Spec) *)

(* the slots of the node store the position index does not point to: the   *)
(* slots delete_min has emptied since the last clear                       *)
DeadSlots == DOMAIN nodes \ LiveSlots

(* no link of the heap leads to slot s or out of it *)
Unlinked(s) ==
    /\ min_root # s
    /\ nodes[s].left = s
    /\ nodes[s].right = s
    /\ nodes[s].parent = NONE
    /\ nodes[s].child = NONE
    /\ \A t \in DOMAIN nodes \ {s} :
          /\ nodes[t].left # s
          /\ nodes[t].right # s
          /\ nodes[t].child # s
          /\ nodes[t].parent # s

(* C22: an insert of an id that is not live, extracted before or new, is   *)
(* accepted in both builds; it puts the item in a new slot at the end of   *)
(* the node store, which grows by one, and the id is live there with the   *)
(* new key, in the root ring.  delete_min and decrease_key leave the       *)
(* length of the node store as it is.  A slot delete_min has emptied stays *)
(* as it is, dead and with no link to it or from it, through every later   *)
(* insert, delete_min and decrease_key (clear empties the node store);     *)
(* delete_min returns the entry of a slot that was live, and the minimum   *)
(* pointer, which get_min reads, names a live slot.                        *)
AppendOnlySlots ==
    [][/\ ret'.op = "insert" =>
             LET id == ret'.arg[1]
                 idx == Len0(nodes)
             IN  /\ ~panicked'
                 /\ Len0(nodes') = Len0(nodes) + 1
                 /\ positions'[id] = idx
                 /\ nodes'[idx].entry = ret'.arg
                 /\ idx \in RootRing'
                 /\ ret'.arg \in Items'
       /\ ret'.op \in {"delete_min", "decrease_key"} =>
             Len0(nodes') = Len0(nodes)
       /\ ret'.op # "clear" =>
             \A s \in DeadSlots : s \in DeadSlots' /\ nodes'[s] = nodes[s]
       /\ (ret'.op = "delete_min" /\ ret'.val # NoEntry) =>
             /\ min_root \in LiveSlots
             /\ nodes[min_root].entry = ret'.val
             /\ min_root \in DeadSlots'
       /\ \A s \in DeadSlots' : Unlinked(s)'
       /\ min_root' # NONE => min_root' \in LiveSlots']_vars

(* an id has been extracted, inserted again with another key and extracted *)
(* again: two dead slots hold it, the later one with the entry the last    *)
(* delete_min returned, and the heap still holds an item                   *)
AppendOnlySlotsWitness ==
    /\ ret.op = "delete_min"
    /\ ret.val # NoEntry
    /\ min_root # NONE
    /\ \E s, t \in DeadSlots :
          /\ s < t
          /\ nodes[s].entry[1] = ret.val[1]
          /\ nodes[s].entry[2] # ret.val[2]
          /\ nodes[t].entry = ret.val

-----------------------------------------------------------------------------
(* The size of a tree against its degree (CascadeSpec) *)

(* the Fibonacci numbers, F(1) = F(2) = 1 *)
RECURSIVE F(_)
F(k) == IF k <= 2 THEN 1 ELSE F(k - 1) + F(k - 2)

(* the slots of the subtree of p: p and what its child ring leads to *)
Subtree(p) ==
    {p} \cup (IF nodes[p].child = NONE
              THEN {}
              ELSE Closure({nodes[p].child}, {}))

(* C23: after every call, the subtree of a live node of degree d holds at  *)
(* least F(d+2) live nodes; a marked node has a parent; F(d+2) is at most  *)
(* len() for the degree d of every live node, so that d is at most the     *)
(* logarithm of len() to the base of the golden ratio (F(d+2) >= phi^d).   *)
FibonacciSizeBound ==
    /\ \A p \in LiveSlots :
          /\ Cardinality(Subtree(p) \cap LiveSlots) >= F(nodes[p].degree + 2)
          /\ F(nodes[p].degree + 2) <= len(Self)
    /\ \A s \in DOMAIN nodes : nodes[s].mark => nodes[s].parent # NONE

(* the bound is met with equality at degree 3: a root with three children, *)
(* two of them marked after the loss of a child each, and five nodes in    *)
(* all                                                                     *)
FibonacciSizeBoundWitness ==
    /\ ret.op = "decrease_key"
    /\ \E p \in RootRing :
          /\ nodes[p].degree = 3
          /\ Cardinality(Subtree(p) \cap LiveSlots) = F(5)
          /\ Cardinality({c \in ChildRing(p) : nodes[c].mark}) = 2

=============================================================================
